---- MODULE Spec2Model ----
(***************************************************************************)
(* Model of kamodo/cli/gui.py: the Dash GUI builder get_gui, the subplot   *)
(* composer make_kamodo_subplots, the checklist callback update_subplot    *)
(* and the range-slider callback update_figure.                            *)
(*                                                                         *)
(* A configuration (cfg.models) is an ordered mapping from model name to   *)
(* a model conf.  get_gui walks it once (one action per loop iteration),   *)
(* then registers the callbacks and returns.  Afterwards the Dash server   *)
(* delivers one UI event at a time to the registered callbacks.            *)
(***************************************************************************)
EXTENDS Integers, Sequences, FiniteSets, TLC

VARIABLES cfg, pc, exc, i, model, tabs, graphs, callbacks, last

vars == <<cfg, pc, exc, i, model, tabs, graphs, callbacks, last>>

(***************************************************************************)
(* Bounds of the model.                                                    *)
(***************************************************************************)
\* longest checklist value (list of variable names) a selection event carries
MaxSel == 2
\* largest upper end of a range-slider value
MaxHi == 2
\* largest point-count input (the input's minimum is MinCount)
MaxCount == 4

\* dcc.Input(min = 3): smallest point count the UI lets through
MinCount == 3

\* cfg.models.keys(), in configuration order (mapping keys are unique)
ModelNames == <<"A", "B">>

\* variable names that occur in models, plot configs and checklist values
VarNames == {"f", "g", "x"}

(***************************************************************************)
(* Python dicts keep insertion order: a dict is a sequence of key/value    *)
(* pairs with unique keys.                                                 *)
(***************************************************************************)
RECURSIVE DictIndex(_, _, _)
DictIndex(d, k, n) ==
    IF n > Len(d) THEN 0
    ELSE IF d[n].key = k THEN n ELSE DictIndex(d, k, n + 1)

DictHas(d, k) == DictIndex(d, k, 1) # 0

\* d[k] = v : overwrite in place, or append a new key
DictSet(d, k, v) ==
    IF DictHas(d, k)
    THEN [d EXCEPT ![DictIndex(d, k, 1)] = [key |-> k, val |-> v]]
    ELSE Append(d, [key |-> k, val |-> v])

\* d.get(k, dflt)
DictGet(d, k, dflt) ==
    IF DictHas(d, k) THEN d[DictIndex(d, k, 1)].val ELSE dflt

\* list(d.keys())
DictKeys(d) == [n \in 1..Len(d) |-> d[n].key]

Range(s) == {s[n] : n \in 1..Len(s)}

(***************************************************************************)
(* Sample sequences.  np.linspace(lo, hi, num) is kept exactly, as the     *)
(* numerators of its points over the common denominator num - 1.           *)
(***************************************************************************)
linspace(lo, hi, num) ==
    [den |-> num - 1,
     pts |-> [n \in 1..num |-> lo * (num - 1) + (n - 1) * (hi - lo)]]

\* the keyword defaults every model function declares for its parameter x
DeclaredDefaults == <<[key |-> "x", val |-> linspace(0, 1, MinCount)]>>

\* get_defaults(func): raises for a function the model marks in nodef
get_defaults(obj, name) ==
    [ok |-> name \notin obj.nodef, val |-> DeclaredDefaults]

\* a plot-config literal for parameter x, and what eval_config makes of it
ExplicitArgs == <<[key |-> "x", val |-> [fn |-> "linspace", lo |-> 0, hi |-> 2, num |-> 3]]>>

eval_config(var_args) ==
    [n \in 1..Len(var_args) |->
        [key |-> var_args[n].key,
         val |-> linspace(var_args[n].val.lo, var_args[n].val.hi, var_args[n].val.num)]]

(***************************************************************************)
(* Model objects.  model.items() yields the members in declaration order;  *)
(* a member is either an UndefinedFunction (undef) or an applied function  *)
(* symbol whose type prints as the function's name.  Registering a         *)
(* function f puts both keys into the model.                               *)
(***************************************************************************)
Member(n, u) == [name |-> n, undef |-> u]

RECURSIVE Registered(_)
Registered(decl) ==
    IF decl = <<>> THEN <<>>
    ELSE <<Member(Head(decl), FALSE), Member(Head(decl), TRUE)>> \o Registered(Tail(decl))

Decls == {<<>>, <<"f">>, <<"f", "g">>, <<"g", "f">>}

\* at most one flawed variable per model: its evaluation raises (bad), or
\* get_defaults raises for it (nodef)
Flaws(decl) ==
    {[bad |-> {}, nodef |-> {}]}
    \cup {[bad |-> {n}, nodef |-> {}] : n \in Range(decl)}
    \cup {[bad |-> {}, nodef |-> {n}] : n \in Range(decl)}

ModelClasses ==
    {[items |-> Registered(d), bad |-> fl.bad, nodef |-> fl.nodef] :
        <<d, fl>> \in {p \in Decls \X Flaws(<<"f", "g">>) : p[2] \in Flaws(p[1])}}
    \cup {[items |-> <<Member("x", TRUE)>>, bad |-> {}, nodef |-> {}]}

MemberNames(obj) == {obj.items[n].name : n \in 1..Len(obj.items)}

(***************************************************************************)
(* Model confs.  plot is None (none = TRUE) or an ordered mapping from      *)
(* variable name to None or to explicit arguments.                         *)
(***************************************************************************)
NoneArgs == [none |-> TRUE, args |-> <<>>]
SomeArgs == [none |-> FALSE, args |-> ExplicitArgs]

PlotConfs ==
    { [none |-> TRUE,  entries |-> <<>>],
      [none |-> FALSE, entries |-> <<>>],
      [none |-> FALSE, entries |-> <<[key |-> "f", val |-> NoneArgs]>>],
      [none |-> FALSE, entries |-> <<[key |-> "g", val |-> SomeArgs], [key |-> "f", val |-> NoneArgs]>>] }

\* ok: hydra.utils.instantiate(model_conf) returns an object of class cls;
\* otherwise it raises
ModelConfs ==
    [ok : {TRUE}, cls : ModelClasses, plot : PlotConfs]
    \cup [ok : {FALSE}, cls : {[items |-> <<>>, bad |-> {}, nodef |-> {}]}, plot : PlotConfs]

\* hydra.utils.instantiate: a fresh object each call, identified by the
\* position of the conf that made it
instantiate(n, conf) ==
    [id |-> n, items |-> conf.cls.items, bad |-> conf.cls.bad, nodef |-> conf.cls.nodef]

(***************************************************************************)
(* Figures.                                                                *)
(***************************************************************************)
\* model.figure(varname, indexing = 'ij', return_type = True, **kw)
ModelFigure(obj, varname, kw) ==
    [ok   |-> varname \in MemberNames(obj) /\ varname \notin obj.bad,
     data |-> <<[obj |-> obj.id, var |-> varname, kw |-> kw]>>]

NoFigure == [rows |-> 0, data |-> <<>>]

\* the loop of make_kamodo_subplots from position n on
RECURSIVE Compose(_, _, _, _, _, _)
Compose(obj, var_names, model_params, n, fig, calls) ==
    IF n > Len(var_names) THEN [sig |-> "Figure", fig |-> fig, calls |-> calls]
    ELSE LET varname == var_names[n]
             kw == DictGet(model_params, varname, <<>>)
             r == ModelFigure(obj, varname, kw)
             c == Append(calls, [obj |-> obj.id, var |-> varname, kw |-> kw])
         IN IF r.ok
            THEN Compose(obj, var_names, model_params, n + 1,
                         [fig EXCEPT !.data = Append(@, [row |-> n, trace |-> r.data[1]])], c)
            ELSE [sig |-> "PreventUpdate", fig |-> NoFigure, calls |-> c]

\* as Compose, but a variable whose evaluation raises loses its row only
RECURSIVE ComposeSkipFailed(_, _, _, _, _, _)
ComposeSkipFailed(obj, var_names, model_params, n, fig, calls) ==
    IF n > Len(var_names) THEN [sig |-> "Figure", fig |-> fig, calls |-> calls]
    ELSE LET varname == var_names[n]
             kw == DictGet(model_params, varname, <<>>)
             r == ModelFigure(obj, varname, kw)
             c == Append(calls, [obj |-> obj.id, var |-> varname, kw |-> kw])
         IN ComposeSkipFailed(obj, var_names, model_params, n + 1,
                IF r.ok THEN [fig EXCEPT !.data = Append(@, [row |-> n, trace |-> r.data[1]])]
                ELSE fig, c)

\* as make_kamodo_subplots, but the except branch does not raise
make_kamodo_subplots_SkipFailed(obj, var_names, model_params) ==
    IF Len(var_names) = 0
    THEN [sig |-> "ValueError", fig |-> NoFigure, calls |-> <<>>]
    ELSE ComposeSkipFailed(obj, var_names, model_params, 1,
                           [rows |-> Len(var_names), data |-> <<>>], <<>>)

\* as make_kamodo_subplots, but add_trace is given no row of its own: every
\* trace lands in row 1
make_kamodo_subplots_FirstRow(obj, var_names, model_params) ==
    LET r == IF Len(var_names) = 0
             THEN [sig |-> "ValueError", fig |-> NoFigure, calls |-> <<>>]
             ELSE Compose(obj, var_names, model_params, 1,
                          [rows |-> Len(var_names), data |-> <<>>], <<>>)
    IN [r EXCEPT !.fig.data = [n \in 1..Len(r.fig.data) |-> [r.fig.data[n] EXCEPT !.row = 1]]]

\* make_subplots(rows = 0) raises ValueError (plotly requires rows > 0)
make_kamodo_subplots(obj, var_names, model_params) ==
    IF Len(var_names) = 0
    THEN [sig |-> "ValueError", fig |-> NoFigure, calls |-> <<>>]
    ELSE Compose(obj, var_names, model_params, 1,
                 [rows |-> Len(var_names), data |-> <<>>], <<>>)

(***************************************************************************)
(* get_gui                                                                 *)
(***************************************************************************)
graph_id_of(model_name) == <<"graph", model_name>>
checklist_id_of(model_name) == <<"checklist", model_name>>

\* lines 112-114: defaults of every UndefinedFunction member
RECURSIVE ResolveDefaults(_, _, _)
ResolveDefaults(obj, n, model_params) ==
    IF n > Len(obj.items) THEN [exc |-> "", params |-> model_params]
    ELSE IF ~obj.items[n].undef THEN ResolveDefaults(obj, n + 1, model_params)
    ELSE LET d == get_defaults(obj, obj.items[n].name)
         IN IF d.ok
            THEN ResolveDefaults(obj, n + 1, DictSet(model_params, obj.items[n].name, d.val))
            ELSE [exc |-> "Exception", params |-> model_params]

\* lines 116-125: one entry per variable of the plot config
RECURSIVE ResolvePlot(_, _, _, _)
ResolvePlot(obj, entries, n, model_params) ==
    IF n > Len(entries) THEN [exc |-> "", params |-> model_params]
    ELSE LET var_name == entries[n].key
             var_args == entries[n].val
         IN IF var_args.none
            THEN IF var_name \in MemberNames(obj) /\ get_defaults(obj, var_name).ok
                 THEN ResolvePlot(obj, entries, n + 1,
                                  DictSet(model_params, var_name, get_defaults(obj, var_name).val))
                 ELSE [exc |-> "SystemExit", params |-> model_params]
            ELSE ResolvePlot(obj, entries, n + 1,
                             DictSet(model_params, var_name, eval_config(var_args.args)))

resolve_model_params(obj, plot) ==
    IF plot.none THEN ResolveDefaults(obj, 1, <<>>)
    ELSE ResolvePlot(obj, plot.entries, 1, <<>>)

\* the checklist of get_equation_divs: one option per member that is not an
\* UndefinedFunction, checked when its label is a key of model_params
get_equation_divs(obj, model_name, model_params) ==
    LET applied == SelectSeq(obj.items, LAMBDA m : ~m.undef)
        labels == [n \in 1..Len(applied) |-> applied[n].name]
    IN [id |-> checklist_id_of(model_name),
        options |-> labels,
        value |-> SelectSeq(labels, LAMBDA l : DictHas(model_params, l))]

\* one iteration of the loop over cfg.models (lines 98-146); m is the local
\* variable model on entry: <<>> while unbound, else <<object>>
loop_body(n, conf, m) ==
    LET model_name == ModelNames[n]
        bound == IF conf.ok THEN <<instantiate(n, conf)>> ELSE m
        skip == [exc |-> "", model |-> bound, exposed |-> FALSE,
                 tab |-> <<>>, graph |-> <<>>]
    IN IF bound = <<>> THEN [skip EXCEPT !.exc = "NameError"]
       ELSE LET obj == bound[1]
                res == resolve_model_params(obj, conf.plot)
                fig == make_kamodo_subplots(obj, DictKeys(res.params), res.params)
            IN IF Len(obj.items) = 0 THEN skip
               ELSE IF res.exc # "" THEN [skip EXCEPT !.exc = res.exc]
               ELSE IF fig.sig # "Figure" THEN [skip EXCEPT !.exc = fig.sig]
               ELSE [exc |-> "", model |-> bound, exposed |-> TRUE,
                     tab |-> <<[label |-> model_name,
                                checklist |-> get_equation_divs(obj, model_name, res.params),
                                graph |-> [id |-> graph_id_of(model_name), figure |-> fig.fig]]>>,
                     graph |-> <<[key |-> graph_id_of(model_name),
                                  val |-> [model |-> obj, model_params |-> res.params,
                                           model_name |-> model_name]]>>]

\* generate_subplot_callback: the closure keeps its own arguments
generate_subplot_callback(graph_id, obj, model_name, model_params) ==
    [kind |-> "selection", output |-> graph_id,
     inputs |-> <<checklist_id_of(model_name)>>,
     model |-> obj, model_params |-> model_params, varname |-> "", keys |-> <<>>]

\* as register_subplot_callbacks, but the closures are made in the loop and
\* see the loop variables model and model_params as the last iteration left them
register_subplot_callbacks_LateBinding(gs) ==
    [n \in 1..Len(gs) |->
        generate_subplot_callback(gs[n].key, gs[Len(gs)].val.model,
                                  gs[n].val.model_name, gs[Len(gs)].val.model_params)]

\* lines 153-154: one selection callback per entry of graphs
register_subplot_callbacks(gs) ==
    [n \in 1..Len(gs) |->
        generate_subplot_callback(gs[n].key, gs[n].val.model,
                                  gs[n].val.model_name, gs[n].val.model_params)]

NoEvent == [kind |-> "none", cb |-> 0, value |-> <<>>, inputs |-> <<>>,
            calls |-> <<>>, sig |-> ""]

Init ==
    /\ cfg \in [1..Len(ModelNames) -> ModelConfs]
    /\ pc = "loop"
    /\ exc = ""
    /\ i = 1
    /\ model = <<>>
    /\ tabs = <<>>
    /\ graphs = <<>>
    /\ callbacks = <<>>
    /\ last = NoEvent

get_gui_loop ==
    /\ pc = "loop"
    /\ i <= Len(cfg)
    /\ LET r == loop_body(i, cfg[i], model)
       IN /\ model' = r.model
          /\ exc' = r.exc
          /\ pc' = IF r.exc = "" THEN "loop" ELSE "crashed"
          /\ i' = IF r.exc = "" THEN i + 1 ELSE i
          /\ tabs' = tabs \o r.tab
          /\ graphs' = IF r.exposed
                       THEN DictSet(graphs, r.graph[1].key, r.graph[1].val)
                       ELSE graphs
    /\ UNCHANGED <<cfg, callbacks, last>>

\* lines 148-156: attach the tabs, register the callbacks, return the app
get_gui_return ==
    /\ pc = "loop"
    /\ i > Len(cfg)
    /\ callbacks' = register_subplot_callbacks(graphs)
    /\ pc' = "done"
    /\ UNCHANGED <<cfg, exc, i, model, tabs, graphs, last>>

(***************************************************************************)
(* Callbacks                                                               *)
(***************************************************************************)
\* as update_subplot, but an empty list renders an empty figure
update_subplot_EmptyFigure(cb, var_names) ==
    IF Len(var_names) > 0
    THEN make_kamodo_subplots(cb.model, var_names, cb.model_params)
    ELSE [sig |-> "Figure", fig |-> NoFigure, calls |-> <<>>]

\* as update_subplot, but the new list is added to the names of the previous
\* selection event instead of replacing them
update_subplot_Accumulate(cb, var_names) ==
    IF Len(var_names) > 0
    THEN make_kamodo_subplots(cb.model,
            SelectSeq(last.value, LAMBDA v : v \notin Range(var_names)) \o var_names,
            cb.model_params)
    ELSE [sig |-> "PreventUpdate", fig |-> NoFigure, calls |-> <<>>]

\* update_subplot(var_names) of the closure cb
update_subplot(cb, var_names) ==
    IF Len(var_names) > 0
    THEN make_kamodo_subplots(cb.model, var_names, cb.model_params)
    ELSE [sig |-> "PreventUpdate", fig |-> NoFigure, calls |-> <<>>]

\* Dash writes a returned figure to the component named by the Output
Publish(ts, graph_id, fig) ==
    [n \in 1..Len(ts) |->
        IF ts[n].graph.id = graph_id THEN [ts[n] EXCEPT !.graph.figure = fig] ELSE ts[n]]

\* checklist values: lists of distinct variable names
Selections ==
    {s \in UNION {[1..n -> VarNames] : n \in 0..MaxSel} :
        \A a, b \in 1..Len(s) : a # b => s[a] # s[b]}

\* the checklist of a model takes the value var_names in the browser and Dash
\* calls update_subplot with it; graph.figure is the figure the browser shows
SelectionEvent ==
    /\ pc = "done"
    /\ \E c \in 1..Len(callbacks), var_names \in Selections :
        /\ callbacks[c].kind = "selection"
        /\ LET r == update_subplot(callbacks[c], var_names)
           IN /\ tabs' = IF r.sig = "Figure" THEN Publish(tabs, callbacks[c].output, r.fig) ELSE tabs
              /\ last' = [kind |-> "selection", cb |-> c, value |-> var_names,
                          inputs |-> <<>>, calls |-> r.calls, sig |-> r.sig]
    /\ UNCHANGED <<cfg, pc, exc, i, model, graphs, callbacks>>

(***************************************************************************)
(* Range sliders.  get_gui leaves generate_callbacks commented out (line   *)
(* 151), so Spec never registers a range callback.  SpecRange is the       *)
(* program with generate_range_slider_callback called, after get_gui, for  *)
(* every variable of every graph with the variable's resolved arguments.   *)
(***************************************************************************)
rangeslider_id_of(graph_id, k) == <<"rangeslider">> \o graph_id \o <<k>>
input_id_of(graph_id, k) == <<"input">> \o graph_id \o <<k>>

\* lines 200-213: the closure keeps graph_id, varname, model and the keys of
\* plot_kwargs; two inputs (slider, point count) per key
generate_range_slider_callback(graph_id, varname, obj, plot_kwargs) ==
    [kind |-> "range", output |-> graph_id,
     inputs |-> [n \in 1..(2 * Len(plot_kwargs)) |->
                    IF n % 2 = 1
                    THEN rangeslider_id_of(graph_id, plot_kwargs[(n + 1) \div 2].key)
                    ELSE input_id_of(graph_id, plot_kwargs[n \div 2].key)],
     model |-> obj, model_params |-> <<>>, varname |-> varname,
     keys |-> DictKeys(plot_kwargs)]

RECURSIVE RangeCallbacksOf(_, _)
RangeCallbacksOf(entry, n) ==
    IF n > Len(entry.val.model_params) THEN <<>>
    ELSE <<generate_range_slider_callback(entry.key, entry.val.model_params[n].key,
                                          entry.val.model, entry.val.model_params[n].val)>>
         \o RangeCallbacksOf(entry, n + 1)

RECURSIVE AllRangeCallbacks(_, _)
AllRangeCallbacks(gs, n) ==
    IF n > Len(gs) THEN <<>>
    ELSE RangeCallbacksOf(gs[n], 1) \o AllRangeCallbacks(gs, n + 1)

register_range_callbacks ==
    /\ pc = "done"
    /\ \A c \in 1..Len(callbacks) : callbacks[c].kind # "range"
    /\ Len(graphs) > 0
    /\ callbacks' = callbacks \o AllRangeCallbacks(graphs, 1)
    /\ UNCHANGED <<cfg, pc, exc, i, model, tabs, graphs, last>>

\* update_figure(*inputs) of the closure cb: inputs[2i] is a slider value
\* <<lo, hi>>, inputs[2i+1] a point count
update_figure(cb, inputs) ==
    LET plot_args == [n \in 1..Len(cb.keys) |->
                        [key |-> cb.keys[n],
                         val |-> linspace(inputs[2 * n - 1][1], inputs[2 * n - 1][2],
                                          inputs[2 * n])]]
        r == ModelFigure(cb.model, cb.varname, plot_args)
        c == <<[obj |-> cb.model.id, var |-> cb.varname, kw |-> plot_args]>>
    IN IF r.ok
       THEN [sig |-> "Figure", fig |-> [rows |-> 1, data |-> <<[row |-> 1, trace |-> r.data[1]]>>],
             calls |-> c]
       ELSE [sig |-> "Exception", fig |-> NoFigure, calls |-> c]

SliderValues == {<<lo, hi>> : lo \in 0..MaxHi, hi \in 1..MaxHi} \ {v \in (0..MaxHi) \X (1..MaxHi) : v[1] >= v[2]}
CountValues == MinCount..MaxCount

\* the values of the inputs of a range callback with one key
RangeInputs == {<<v, num>> : v \in SliderValues, num \in CountValues}

\* a slider or point-count input of a variable changes and Dash calls
\* update_figure with the current values of all its inputs
RangeEvent ==
    /\ pc = "done"
    /\ \E c \in 1..Len(callbacks), inputs \in RangeInputs :
        /\ callbacks[c].kind = "range"
        /\ Len(inputs) = Len(callbacks[c].inputs)
        /\ LET r == update_figure(callbacks[c], inputs)
           IN /\ tabs' = IF r.sig = "Figure" THEN Publish(tabs, callbacks[c].output, r.fig) ELSE tabs
              /\ last' = [kind |-> "range", cb |-> c, value |-> <<>>,
                          inputs |-> inputs, calls |-> r.calls, sig |-> r.sig]
    /\ UNCHANGED <<cfg, pc, exc, i, model, graphs, callbacks>>

Next == get_gui_loop \/ get_gui_return \/ SelectionEvent

NextRange ==
    get_gui_loop \/ get_gui_return \/ register_range_callbacks \/ RangeEvent

SpecRange == Init /\ [][NextRange]_vars

\* SpecRange with the selection callbacks at work as well, explored for one
\* range edit followed by one selection event
FirstRangeEvent == last.kind = "none" /\ RangeEvent

SelectionAfterRange == last.kind = "range" /\ SelectionEvent

NextRangeSelect ==
    get_gui_loop \/ get_gui_return \/ register_range_callbacks
        \/ FirstRangeEvent \/ SelectionAfterRange

SpecRangeSelect == Init /\ [][NextRangeSelect]_vars

Spec == Init /\ [][Next]_vars

(***************************************************************************)
(* Vocabulary of the properties                                            *)
(***************************************************************************)
Terminated == pc \in {"done", "crashed"}

ModelIndexes == 1..Len(ModelNames)

HasTab(name) == \E t \in 1..Len(tabs) : tabs[t].label = name

HasCallback(name) ==
    \E c \in 1..Len(callbacks) :
        callbacks[c].output = graph_id_of(name) \/ checklist_id_of(name) \in Range(callbacks[c].inputs)

\* the model of this name is in the UI: a tab with its checklist and graph,
\* an entry of graphs and, once get_gui has returned, a selection callback
Exposed(name) ==
    /\ \E t \in 1..Len(tabs) :
        /\ tabs[t].label = name
        /\ tabs[t].checklist.id = checklist_id_of(name)
        /\ tabs[t].graph.id = graph_id_of(name)
    /\ DictHas(graphs, graph_id_of(name))
    /\ pc = "done" =>
        \E c \in 1..Len(callbacks) :
            /\ callbacks[c].kind = "selection"
            /\ callbacks[c].output = graph_id_of(name)
            /\ callbacks[c].inputs = <<checklist_id_of(name)>>

\* the figure the browser shows in the graph of this id
FigureOf(graph_id) ==
    tabs[CHOOSE t \in 1..Len(tabs) : tabs[t].graph.id = graph_id].graph.figure

\* what the conf at position n resolves to when its own object is used
OwnParams(n) == resolve_model_params(instantiate(n, cfg[n]), cfg[n].plot)

\* the conf instantiates with at least one member and resolves its domains
Resolves(n) ==
    /\ cfg[n].ok
    /\ Len(cfg[n].cls.items) > 0
    /\ OwnParams(n).exc = ""
    /\ Len(OwnParams(n).params) > 0

\* every variable of the initial figure of the conf evaluates
Evaluates(n) ==
    \A k \in 1..Len(OwnParams(n).params) :
        ModelFigure(instantiate(n, cfg[n]), OwnParams(n).params[k].key,
                    OwnParams(n).params[k].val).ok

(***************************************************************************)
(* C1: whatever models fail to instantiate (the first one included),       *)
(* get_gui runs to completion and every other model that instantiates      *)
(* with at least one member and resolves its domains is exposed with its   *)
(* own checklist, figure and callback.  Stated for configurations whose    *)
(* instantiating models have no other defect.                              *)
(***************************************************************************)
C1_InstantiationFailureIsolated ==
    (Terminated /\ \A n \in ModelIndexes : cfg[n].ok => (Resolves(n) /\ Evaluates(n)))
        => /\ pc = "done"
           /\ \A n \in ModelIndexes : cfg[n].ok =>
                /\ Exposed(ModelNames[n])
                /\ DictGet(graphs, graph_id_of(ModelNames[n]), [model |-> [id |-> 0]]).model.id = n

(***************************************************************************)
(* C2: after the build a model whose instantiation failed has no tab, no   *)
(* graph entry and no callback under its name.                             *)
(***************************************************************************)
C2_FailedModelSkipped ==
    pc = "done" =>
        \A n \in ModelIndexes : ~cfg[n].ok =>
            /\ ~HasTab(ModelNames[n])
            /\ ~DictHas(graphs, graph_id_of(ModelNames[n]))
            /\ ~HasCallback(ModelNames[n])

(***************************************************************************)
(* C3: when default resolution fails for a variable of one model, the      *)
(* build still returns, that model is left out and every other model is    *)
(* exposed.  Stated for configurations in which every model instantiates   *)
(* and no evaluation fails.                                                *)
(***************************************************************************)
ResolutionFails(n) ==
    cfg[n].ok /\ Len(cfg[n].cls.items) > 0 /\ OwnParams(n).exc # ""

C3_ResolutionFailureIsolated ==
    (/\ Terminated
     /\ \E n \in ModelIndexes : ResolutionFails(n)
     /\ \A n \in ModelIndexes : ResolutionFails(n) \/ (Resolves(n) /\ Evaluates(n)))
        => /\ pc = "done"
           /\ \A n \in ModelIndexes :
                IF ResolutionFails(n) THEN ~HasTab(ModelNames[n]) ELSE Exposed(ModelNames[n])

(***************************************************************************)
(* C4: make_kamodo_subplots returns a Figure with a trace for exactly the  *)
(* variables whose evaluation succeeded, each at the row of its position,  *)
(* and evaluates the variables after a failing one.  Observed on the       *)
(* result update_subplot hands to Dash.                                    *)
(***************************************************************************)
RECURSIVE SucceededRows(_, _, _, _)
SucceededRows(obj, var_names, model_params, n) ==
    IF n > Len(var_names) THEN <<>>
    ELSE LET r == ModelFigure(obj, var_names[n], DictGet(model_params, var_names[n], <<>>))
         IN (IF r.ok THEN <<[row |-> n, trace |-> r.data[1]]>> ELSE <<>>)
            \o SucceededRows(obj, var_names, model_params, n + 1)

C4_FailingRowSkipped ==
    (last.kind = "selection" /\ Len(last.value) > 0)
        => /\ last.sig = "Figure"
           /\ Len(last.calls) = Len(last.value)
           /\ FigureOf(callbacks[last.cb].output) =
                [rows |-> Len(last.value),
                 data |-> SucceededRows(callbacks[last.cb].model, last.value,
                                        callbacks[last.cb].model_params, 1)]

(***************************************************************************)
(* C5: an evaluation failure of one variable of the initial figure of a    *)
(* model does not crash the build: get_gui returns and every model, the    *)
(* one with the failing variable included, is exposed.  Stated for         *)
(* configurations in which every model instantiates and resolves.          *)
(***************************************************************************)
C5_InitialEvaluationFailureIsolated ==
    (/\ Terminated
     /\ \A n \in ModelIndexes : Resolves(n)
     /\ \E n \in ModelIndexes : ~Evaluates(n))
        => /\ pc = "done"
           /\ \A n \in ModelIndexes : Exposed(ModelNames[n])

(***************************************************************************)
(* C6: a selection event with an empty list is a no-op: nothing is         *)
(* evaluated, Dash is told to keep what it has, and every published        *)
(* figure is the same after the event as before it.                        *)
(***************************************************************************)
C6_EmptySelectionKeepsFigure ==
    [][(last'.kind = "selection" /\ last'.value = <<>>)
        => (tabs' = tabs /\ last'.calls = <<>> /\ last'.sig = "PreventUpdate")]_vars

\* the figure get_gui put into the graph of callback c
InitialFigure(c) ==
    make_kamodo_subplots(callbacks[c].model, DictKeys(callbacks[c].model_params),
                         callbacks[c].model_params).fig

\* an empty selection arrived after earlier events had replaced the figure
C6_Witness ==
    /\ last.kind = "selection"
    /\ last.value = <<>>
    /\ FigureOf(callbacks[last.cb].output) # InitialFigure(last.cb)

(***************************************************************************)
(* C7: a non-empty selection event whose variables all evaluate publishes  *)
(* a figure with exactly one row per name of the event's list, in the      *)
(* list's order, whatever was shown before.                                *)
(***************************************************************************)
AllEvaluate(c, var_names) ==
    \A n \in 1..Len(var_names) :
        ModelFigure(callbacks[c].model, var_names[n],
                    DictGet(callbacks[c].model_params, var_names[n], <<>>)).ok

C7_SelectionReplacesVerbatim ==
    (last.kind = "selection" /\ Len(last.value) > 0 /\ AllEvaluate(last.cb, last.value))
        => LET fig == FigureOf(callbacks[last.cb].output)
           IN /\ last.sig = "Figure"
              /\ fig.rows = Len(last.value)
              /\ Len(fig.data) = Len(last.value)
              /\ \A n \in 1..Len(last.value) :
                    /\ fig.data[n].row = n
                    /\ fig.data[n].trace.var = last.value[n]

\* a two-name selection was published over an initial figure with other rows
C7_Witness ==
    /\ last.kind = "selection"
    /\ last.sig = "Figure"
    /\ Len(last.value) = 2
    /\ DictKeys(callbacks[last.cb].model_params) # last.value

(***************************************************************************)
(* C8: a selection event on the checklist of one model evaluates only the  *)
(* model object and the resolved domains registered for that model (its    *)
(* own object when its conf instantiated), and publishes only to its       *)
(* graph: every other graph keeps its figure, and graphs and the           *)
(* registered closures are unchanged.                                      *)
(***************************************************************************)
C8_ClosureIsolation ==
    [][(last'.kind = "selection")
        => LET cb == callbacks[last'.cb]
               own == DictGet(graphs, cb.output, [model |-> [id |-> 0], model_params |-> <<>>])
           IN /\ DictHas(graphs, cb.output)
              /\ \A k \in 1..Len(last'.calls) :
                    /\ last'.calls[k].obj = own.model.id
                    /\ last'.calls[k].kw = DictGet(own.model_params, last'.calls[k].var, <<>>)
              /\ \A n \in ModelIndexes :
                    (cfg[n].ok /\ cb.inputs = <<checklist_id_of(ModelNames[n])>>)
                        => \A k \in 1..Len(last'.calls) : last'.calls[k].obj = n
              /\ \A t \in 1..Len(tabs) :
                    tabs[t].graph.id # cb.output => tabs'[t] = tabs[t]
              /\ graphs' = graphs
              /\ callbacks' = callbacks]_vars

\* two exposed models own a variable f; the first-registered one's checklist
\* fired and its figure was republished
C8_Witness ==
    /\ last.kind = "selection"
    /\ last.sig = "Figure"
    /\ last.cb = 1
    /\ Len(callbacks) = 2
    /\ callbacks[1].model.id # callbacks[2].model.id
    /\ "f" \in MemberNames(callbacks[1].model) \cap MemberNames(callbacks[2].model)
    /\ "f" \in Range(last.value)
    /\ callbacks[1].model_params # callbacks[2].model_params

(***************************************************************************)
(* C9: a range or count edit for a parameter of variable f recomputes      *)
(* only f's row: every row of another variable that the graph showed       *)
(* before the edit is in the published figure after it, trace data         *)
(* included.                                                               *)
(***************************************************************************)
FigureIn(ts, graph_id) ==
    ts[CHOOSE t \in 1..Len(ts) : ts[t].graph.id = graph_id].graph.figure

SelectionSubscriptions(graph_id, model_name) ==
    {c \in 1..Len(callbacks) :
        /\ callbacks[c].kind = "selection"
        /\ callbacks[c].output = graph_id
        /\ callbacks[c].inputs = <<checklist_id_of(model_name)>>}

RangeSubscriptions(graph_id, varname, k) ==
    {c \in 1..Len(callbacks) :
        /\ callbacks[c].kind = "range"
        /\ callbacks[c].output = graph_id
        /\ callbacks[c].varname = varname
        /\ rangeslider_id_of(graph_id, k) \in Range(callbacks[c].inputs)
        /\ input_id_of(graph_id, k) \in Range(callbacks[c].inputs)}

C10_OneSubscriptionPerController ==
    pc = "done" =>
        \A g \in 1..Len(graphs) :
            /\ Cardinality(SelectionSubscriptions(graphs[g].key, graphs[g].val.model_name)) = 1
            /\ \A v \in 1..Len(graphs[g].val.model_params) :
                \A k \in 1..Len(graphs[g].val.model_params[v].val) :
                    Cardinality(RangeSubscriptions(graphs[g].key,
                                                   graphs[g].val.model_params[v].key,
                                                   graphs[g].val.model_params[v].val[k].key)) = 1

(***************************************************************************)
(* C11: a model that, with its members classified (a member that is an     *)
(* UndefinedFunction is Independent, any other Dependent), has no          *)
(* Dependent variable is never exposed: no tab, no graph entry and no      *)
(* callback under its name, also when it has Independent members.          *)
(***************************************************************************)
DependentNames(items) == {items[n].name : n \in {k \in 1..Len(items) : ~items[k].undef}}

C11_NoDependentNotExposed ==
    \A n \in ModelIndexes :
        (cfg[n].ok /\ DependentNames(cfg[n].cls.items) = {})
            => /\ ~HasTab(ModelNames[n])
               /\ ~DictHas(graphs, graph_id_of(ModelNames[n]))
               /\ ~HasCallback(ModelNames[n])

(***************************************************************************)
(* C12: the variables of an exposed model are resolved, and its initial    *)
(* figure has its rows, in the order in which the model declares them,     *)
(* with and without a plot config.                                         *)
(***************************************************************************)
RECURSIVE FirstIndex(_, _, _)
FirstIndex(items, name, n) ==
    IF n > Len(items) THEN 0
    ELSE IF items[n].name = name THEN n ELSE FirstIndex(items, name, n + 1)

InDeclarationOrder(names, items) ==
    \A a, b \in 1..Len(names) :
        a < b => FirstIndex(items, names[a], 1) < FirstIndex(items, names[b], 1)

C12_DeclarationOrder ==
    \A g \in 1..Len(graphs) :
        /\ InDeclarationOrder(DictKeys(graphs[g].val.model_params), graphs[g].val.model.items)
        /\ \A t \in 1..Len(tabs) :
            (pc = "loop" /\ tabs[t].graph.id = graphs[g].key)
                => [k \in 1..Len(tabs[t].graph.figure.data) |-> tabs[t].graph.figure.data[k].trace.var]
                    = DictKeys(graphs[g].val.model_params)

FigureVars(fig) == {fig.data[k].trace.var : k \in 1..Len(fig.data)}

\* the conf under whose name the graph was built
ConfOf(graph_id) ==
    cfg[CHOOSE n \in ModelIndexes : graph_id_of(ModelNames[n]) = graph_id]

C14_InitialSelectionMatchesRows ==
    \A g \in 1..Len(graphs) : \A t \in 1..Len(tabs) :
        tabs[t].graph.id = graphs[g].key =>
            LET checked == Range(tabs[t].checklist.value)
                plot == ConfOf(graphs[g].key).plot
            IN /\ checked = IF plot.none
                            THEN Range(DictKeys(graphs[g].val.model_params))
                            ELSE Range(DictKeys(plot.entries))
               /\ pc = "loop" => checked = FigureVars(tabs[t].graph.figure)

(***************************************************************************)
(* C15: in every reachable state the visible set of a model, the           *)
(* variables of the rows of its published figure, is a subset of the       *)
(* model's Dependent variable names: no Independent or unknown variable    *)
(* is ever shown.                                                          *)
(***************************************************************************)
C15_VisibleSubsetOfDependent ==
    \A g \in 1..Len(graphs) : \A t \in 1..Len(tabs) :
        tabs[t].graph.id = graphs[g].key =>
            FigureVars(tabs[t].graph.figure) \subseteq DependentNames(graphs[g].val.model.items)

(***************************************************************************)
(* C16: a selection event rejected for its empty list and a selection      *)
(* event whose composition failed never give the caller the same signal.   *)
(***************************************************************************)
C16_EmptyAndFailedDistinct ==
    (/\ last.kind = "selection"
     /\ Len(last.value) > 0
     /\ ~AllEvaluate(last.cb, last.value))
        => last.sig # update_subplot(callbacks[last.cb], <<>>).sig

(***************************************************************************)
(* C17: a selection callback is all-or-nothing.  For a non-empty list,     *)
(* update_subplot either publishes a figure with a trace for every listed  *)
(* variable, in order, or, when a listed variable fails to evaluate,       *)
(* publishes nothing and every figure stays as it was.                     *)
(***************************************************************************)
TraceVars(fig) == [k \in 1..Len(fig.data) |-> fig.data[k].trace.var]

C17_AllOrNothing ==
    [][(last'.kind = "selection" /\ Len(last'.value) > 0)
        => IF AllEvaluate(last'.cb, last'.value)
           THEN /\ last'.sig = "Figure"
                /\ TraceVars(FigureIn(tabs', callbacks[last'.cb].output)) = last'.value
           ELSE /\ last'.sig # "Figure"
                /\ tabs' = tabs]_vars

\* a two-name list with one evaluable and one failing name was refused
\* while the graph showed a figure published by an earlier event
C17_Witness ==
    /\ last.kind = "selection"
    /\ Len(last.value) = 2
    /\ last.sig = "PreventUpdate"
    /\ \E n \in 1..2 : ModelFigure(callbacks[last.cb].model, last.value[n], <<>>).ok
    /\ FigureOf(callbacks[last.cb].output) # InitialFigure(last.cb)

(***************************************************************************)
(* C18: selection events change neither a model nor its resolved domains,  *)
(* and the figure a selection event publishes is determined by the model   *)
(* and domains registered at build time and the event's list alone, so     *)
(* two events with the same list publish the same figure whatever          *)
(* happened before or between them.                                        *)
(***************************************************************************)
C18_HistoryIndependent ==
    [][(last'.kind = "selection")
        => LET out == callbacks[last'.cb].output
               own == DictGet(graphs, out, [model |-> [id |-> 0], model_params |-> <<>>])
           IN /\ cfg' = cfg /\ model' = model /\ graphs' = graphs /\ callbacks' = callbacks
              /\ last'.sig = "Figure"
                    => FigureIn(tabs', out)
                        = make_kamodo_subplots(own.model, last'.value, own.model_params).fig]_vars

\* a selection was published after earlier events had replaced the figures
\* of both graphs
C18_Witness ==
    /\ last.kind = "selection"
    /\ last.sig = "Figure"
    /\ Len(callbacks) = 2
    /\ \A c \in 1..2 : FigureOf(callbacks[c].output) # InitialFigure(c)

====
